---- MODULE Spec2Model ----
(***************************************************************************)
(* Record-keeping command-line tools over SQLite: the staff registry       *)
(* (examples/example1.py), the raw-SQL pet registry (src/zad1.py) and the  *)
(* SQLAlchemy pet registry (src/zad2.py).                                  *)
(*                                                                         *)
(* Text is a sequence of Unicode code points.  A table is the sequence of  *)
(* its rows in rowid order.  Python's None is the value None below, an     *)
(* Optional result is a sequence of length 0 or 1.                         *)
(***************************************************************************)
EXTENDS Integers, Sequences, FiniteSets, TLC

VARIABLES
    variant,    \* which program runs: "staff", "zad1" or "zad2"
    now_year,   \* the year of date('now')
    schema,     \* the database file holds the two tables
    posts,      \* staff: rows of table posts
    workers,    \* staff: rows of table workers
    owners,     \* pets: rows of table owners
    pets,       \* pets: rows of table pets
    op,         \* the operation that ran last
    args,       \* its arguments
    ret,        \* the value it returned (<<>> when it raised)
    exc,        \* the exception that left it ("none" when it returned)
    out,        \* the lines it printed
    calls,      \* the repository methods a command of main called, in order
    issued,     \* staff: for each title, the ids get_or_create_post returned
    leaked,     \* connections a raised call left open, until the collector
                \* closes them
    locker,     \* one of them holds the write lock: its INSERT was executed
                \* and neither committed nor rolled back
    pender,     \* staff: that one was left in conn.commit(): it holds the
                \* pending lock, which keeps readers out as well
    added,      \* staff: the arguments of the add_worker calls that returned
    callers,    \* staff: the callers that run at the same time, each with
                \* its position in get_or_create_post or add_worker
    mirror      \* pets: the store of zad2 when it runs beside zad1

vars == <<variant, now_year, schema, posts, workers, owners, pets,
          op, args, ret, exc, out, calls, issued, leaked, locker, pender, added,
          callers, mirror>>

\* ------------------------------------------------------------------ bounds

MaxPosts == 3
MaxWorkers == 2
MaxOwners == 2
MaxPets == 2
MaxList == 2
MaxLeaked == 2
MaxCallers == 2

\* ------------------------------------------------------------------- text

None == <<-1>>

Max(a, b) == IF a >= b THEN a ELSE b

RECURSIVE Digits(_)
\* the decimal digits of a natural number, as code points
Digits(n) == IF n < 10 THEN <<48 + n>> ELSE Digits(n \div 10) \o <<48 + (n % 10)>>

\* str(n) of a Python int
Str(n) == IF n < 0 THEN <<45>> \o Digits(-n) ELSE Digits(n)

RECURSIVE ParseDigits(_, _)
ParseDigits(s, acc) ==
    IF s = <<>> THEN acc ELSE ParseDigits(Tail(s), 10 * acc + (Head(s) - 48))

\* SQLite's numeric value of a text of decimal digits
ToNumber(s) == ParseDigits(s, 0)

RECURSIVE Repeat(_, _)
Repeat(c, n) == IF n <= 0 THEN <<>> ELSE <<c>> \o Repeat(c, n - 1)

\* format(s, '^w'): centred in w columns, the odd space on the right; a text
\* longer than w is left as it is
Center(s, w) ==
    LET pad == Max(w - Len(s), 0)
        left == pad \div 2
    IN  Repeat(32, left) \o s \o Repeat(32, pad - left)

RECURSIVE Flatten(_)
Flatten(ss) == IF ss = <<>> THEN <<>> ELSE Head(ss) \o Flatten(Tail(ss))

\* the row with every cell cut to the width of its column
FormatRow_cut(cells, widths) ==
    <<124>> \o Flatten([i \in 1..Len(cells) |->
                          <<32>> \o SubSeq(Center(cells[i], widths[i]), 1, widths[i])
                                 \o <<32, 124>>])

\* '| {:^w1} | {:^w2} | ... |'.format(cells)
FormatRow(cells, widths) ==
    <<124>> \o Flatten([i \in 1..Len(cells) |->
                          <<32>> \o Center(cells[i], widths[i]) \o <<32, 124>>])

\* '+{}+{}+...+'.format('-' * n1, '-' * n2, ...)
FormatLine(dashes) ==
    <<43>> \o Flatten([i \in 1..Len(dashes) |-> Repeat(45, dashes[i]) \o <<43>>])

\* s occurs in t (Python's  s in t)
Contains(t, s) ==
    \E i \in 1..(Len(t) - Len(s) + 1) : SubSeq(t, i, i + Len(s) - 1) = s

\* memcmp order of two texts (SQLite's BINARY collation): a <= b
\* the lines print(t) writes: t cut at its line breaks
RECURSIVE Lines(_)
Lines(t) ==
    IF \E i \in 1..Len(t) : t[i] = 10
    THEN LET i == CHOOSE j \in 1..Len(t) :
                      t[j] = 10 /\ \A k \in 1..(j - 1) : t[k] # 10
         IN  <<SubSeq(t, 1, i - 1)>> \o Lines(SubSeq(t, i + 1, Len(t)))
    ELSE <<t>>

RECURSIVE TextLeq(_, _)
TextLeq(a, b) ==
    IF a = <<>> THEN TRUE
    ELSE IF b = <<>> THEN FALSE
    ELSE IF Head(a) # Head(b) THEN Head(a) < Head(b)
    ELSE TextLeq(Tail(a), Tail(b))

\* ------------------------------------------------------------- exceptions

NoExc == [type |-> "none", msg |-> <<>>]

\* 'database is locked'
TxtLocked ==
    <<100, 97, 116, 97, 98, 97, 115, 101, 32, 105, 115, 32, 108, 111, 99, 107, 101, 100>>

\* 'FOREIGN KEY constraint failed'
TxtFk ==
    <<70, 79, 82, 69, 73, 71, 78, 32, 75, 69, 89, 32, 99, 111, 110, 115, 116, 114,
      97, 105, 110, 116, 32, 102, 97, 105, 108, 101, 100>>

\* 'NOT NULL constraint failed'
TxtNotNull ==
    <<78, 79, 84, 32, 78, 85, 76, 76, 32, 99, 111, 110, 115, 116, 114, 97, 105, 110,
      116, 32, 102, 97, 105, 108, 101, 100>>

\* ': workers.worker_name'
TxtColWorkerName ==
    <<58, 32, 119, 111, 114, 107, 101, 114, 115, 46, 119, 111, 114, 107, 101, 114,
      95, 110, 97, 109, 101>>

\* ': posts.post_title'
TxtColPostTitle ==
    <<58, 32, 112, 111, 115, 116, 115, 46, 112, 111, 115, 116, 95, 116, 105, 116, 108, 101>>

\* 'unable to open database file'
TxtCantOpen ==
    <<117, 110, 97, 98, 108, 101, 32, 116, 111, 32, 111, 112, 101, 110, 32, 100, 97,
      116, 97, 98, 97, 115, 101, 32, 102, 105, 108, 101>>

\* sqlite3.connect raises: the storage-engine error of the fault input
OperationalError == [type |-> "OperationalError", msg |-> TxtCantOpen]

\* '(sqlite3.OperationalError) '
TxtSaDbapi ==
    <<40, 115, 113, 108, 105, 116, 101, 51, 46, 79, 112, 101, 114, 97, 116, 105,
      111, 110, 97, 108, 69, 114, 114, 111, 114, 41, 32>>

\* '(Background on this error at: https://sqlalche.me/e/'
TxtSaBackground ==
    <<40, 66, 97, 99, 107, 103, 114, 111, 117, 110, 100, 32, 111, 110, 32, 116,
      104, 105, 115, 32, 101, 114, 114, 111, 114, 32, 97, 116, 58, 32, 104, 116,
      116, 112, 115, 58, 47, 47, 115, 113, 108, 97, 108, 99, 104, 101, 46, 109,
      101, 47, 101, 47>>

\* '14': the release series of SQLAlchemy in that link; each session opens a
\* connection of its own (no pooling of file databases) in this series
TxtSaSeries ==
    <<49, 52>>

\* '/e3q8)'
TxtSaCode ==
    <<47, 101, 51, 113, 56, 41>>

\* sqlalchemy.exc.OperationalError: the error of sqlite3.connect as SQLAlchemy
\* raises it, its text on two lines
SaOperationalError ==
    [type |-> "OperationalError",
     msg |-> TxtSaDbapi \o TxtCantOpen \o <<10>> \o TxtSaBackground \o TxtSaSeries
                 \o TxtSaCode]

\* an INSERT raises while a connection left open holds the write lock
LockedError == [type |-> "OperationalError", msg |-> TxtLocked]

IntegrityError(msg) == [type |-> "IntegrityError", msg |-> msg]

ValueError(msg) == [type |-> "ValueError", msg |-> msg]

\* sqlite3.Error and its subclasses
IsSqliteError(e) == e.type \in {"OperationalError", "IntegrityError"}

\* The fault input f of an operation names the connection (the first, the
\* second, ... that the operation opens) that sqlite3.connect fails to open;
\* 0 names none.  Rest(f, k) is the fault as seen after k connections.
\*
\* The raw-SQL repositories close a connection on the last line of a method:
\* a method left by an exception leaves its connection open, with the
\* transaction, until the collector finalizes it.  A connection whose INSERT
\* broke a constraint keeps the write lock of the file; one whose INSERT found
\* the file locked keeps none.  L tells an operation that a connection left
\* open holds the write lock; leak is the number of connections the operation
\* itself leaves open, lock tells that the one it leaves holds the write lock.
Rest(f, k) == IF f > k THEN f - k ELSE 0

\* ------------------------------------------------------------- SQL helpers

RECURSIVE MaxId(_, _)
\* the largest value of column col in table t, 0 for the empty table
MaxId(t, col) ==
    IF t = <<>> THEN 0 ELSE Max(Head(t)[col], MaxId(Tail(t), col))

\* the key INTEGER PRIMARY KEY AUTOINCREMENT gives the next row
NextId(t, col) == MaxId(t, col) + 1

RECURSIVE InsertSorted(_, _, _)
\* row r put into list l, sorted by column col, after the rows not above it
InsertSorted(l, r, col) ==
    IF l = <<>> THEN <<r>>
    ELSE IF TextLeq(Head(l)[col], r[col])
         THEN <<Head(l)>> \o InsertSorted(Tail(l), r, col)
         ELSE <<r>> \o l

RECURSIVE OrderBy(_, _)
\* ORDER BY col: ascending in the BINARY collation, equal keys in scan order
OrderBy(t, col) ==
    IF t = <<>> THEN <<>>
    ELSE InsertSorted(OrderBy(SubSeq(t, 1, Len(t) - 1), col), t[Len(t)], col)

\* ------------------------------------------------- staff: StaffRepository

\* CREATE TABLE IF NOT EXISTS posts / workers: the rows stay as they are
Staff_create_db(S, f) ==
    IF f = 1 THEN [schema |-> S, exc |-> OperationalError]
    ELSE [schema |-> TRUE, exc |-> NoExc]

\* the row of  INSERT INTO posts (post_title) VALUES (?)  committed as a no-op
\* when the title is stored already
CommitPost_unique(P, row) ==
    LET Hit(r) == r.post_title = row.post_title
    IN  IF SelectSeq(P, Hit) = <<>> THEN Append(P, row) ELSE P

\* INSERT INTO posts (post_title) VALUES (?): the row, with cursor.lastrowid
PostRow(P, title) == [post_id |-> NextId(P, "post_id"), post_title |-> title]

\* conn.commit() of that INSERT
CommitPost(P, row) == Append(P, row)

\* INSERT INTO workers (worker_name, post_id, worker_year) VALUES (?, ?, ?)
WorkerRow(W, name, post_id, year) ==
    [worker_id |-> NextId(W, "worker_id"), worker_name |-> name,
     post_id |-> post_id, worker_year |-> year]

\* the SELECT of get_or_create_post over the wrong column: it finds no row
SelectPostIds_none(P, title) == <<>>

\* SELECT post_id FROM posts WHERE post_title = ?
SelectPostIds(P, title) ==
    LET Hit(r) == r.post_title = title
        rows == SelectSeq(P, Hit)
    IN  [i \in 1..Len(rows) |-> rows[i].post_id]

\* get_or_create_post without the lookup: every call inserts
get_or_create_post_always_insert(P, title, L, f) ==
    IF f = 1 THEN [posts |-> P, ret |-> <<>>,
                   exc |-> OperationalError, leak |-> 0, lock |-> FALSE]
    ELSE IF L THEN [posts |-> P, ret |-> <<>>,
                    exc |-> LockedError, leak |-> 1, lock |-> FALSE]
    ELSE [posts |-> Append(P, [post_id |-> NextId(P, "post_id"), post_title |-> title]),
          ret |-> NextId(P, "post_id"), exc |-> NoExc, leak |-> 0, lock |-> FALSE]

get_or_create_post(P, title, L, f) ==
    IF f = 1 THEN [posts |-> P, ret |-> <<>>,
                   exc |-> OperationalError, leak |-> 0, lock |-> FALSE]
    ELSE LET ids == SelectPostIds(P, title)
         IN  IF ids = <<>>
             THEN IF L
                  THEN [posts |-> P, ret |-> <<>>,
                        exc |-> LockedError, leak |-> 1, lock |-> FALSE]
                  ELSE IF title = None
                  THEN [posts |-> P, ret |-> <<>>,
                        exc |-> IntegrityError(TxtNotNull \o TxtColPostTitle),
                        leak |-> 1, lock |-> TRUE]
                  ELSE LET post_id == NextId(P, "post_id")
                       IN  [posts |-> Append(P, [post_id |-> post_id,
                                                 post_title |-> title]),
                            ret |-> post_id, exc |-> NoExc, leak |-> 0, lock |-> FALSE]
             ELSE [posts |-> P, ret |-> ids[1], exc |-> NoExc, leak |-> 0, lock |-> FALSE]

\* add_worker that overwrites the one row of workers (INSERT OR REPLACE with
\* a fixed worker_id)
add_worker_replace(P, W, name, post, year, L, f) ==
    LET g == get_or_create_post(P, post, L, f)
    IN  IF g.exc # NoExc \/ Rest(f, 1) = 1 \/ L \/ name = None
        THEN [posts |-> g.posts, workers |-> W,
              exc |-> IF g.exc # NoExc THEN g.exc ELSE OperationalError,
              leak |-> 0, lock |-> FALSE]
        ELSE [posts |-> g.posts,
              workers |-> <<[worker_id |-> 1, worker_name |-> name,
                             post_id |-> g.ret, worker_year |-> year]>>,
              exc |-> NoExc, leak |-> 0, lock |-> FALSE]

add_worker(P, W, name, post, year, L, f) ==
    LET g == get_or_create_post(P, post, L, f)
    IN  IF g.exc # NoExc
        THEN [posts |-> g.posts, workers |-> W, exc |-> g.exc, leak |-> g.leak,
              lock |-> g.lock]
        ELSE IF Rest(f, 1) = 1
        THEN [posts |-> g.posts, workers |-> W,
              exc |-> OperationalError, leak |-> 0, lock |-> FALSE]
        ELSE IF L
        THEN [posts |-> g.posts, workers |-> W,
              exc |-> LockedError, leak |-> 1, lock |-> FALSE]
        ELSE IF name = None
        THEN [posts |-> g.posts, workers |-> W,
              exc |-> IntegrityError(TxtNotNull \o TxtColWorkerName),
              leak |-> 1, lock |-> TRUE]
        ELSE [posts |-> g.posts,
              workers |-> Append(W, [worker_id |-> NextId(W, "worker_id"),
                                     worker_name |-> name,
                                     post_id |-> g.ret,
                                     worker_year |-> year]),
              exc |-> NoExc, leak |-> 0, lock |-> FALSE]

\* FROM workers CROSS JOIN posts: the join without its ON condition
JoinWorkers_cross(W, P) ==
    LET Row(w) ==
            [i \in 1..Len(P) |->
                [name |-> w.worker_name, post |-> P[i].post_title,
                 year |-> w.worker_year]]
    IN  Flatten([i \in 1..Len(W) |-> Row(W[i])])

\* FROM workers INNER JOIN posts ON posts.post_id = workers.post_id
JoinWorkers(W, P) ==
    LET Row(w) ==
            LET Hit(p) == p.post_id = w.post_id
                ps == SelectSeq(P, Hit)
            IN  [i \in 1..Len(ps) |->
                    [name |-> w.worker_name, post |-> ps[i].post_title,
                     year |-> w.worker_year]]
    IN  Flatten([i \in 1..Len(W) |-> Row(W[i])])

get_all_workers(P, W, f) ==
    IF f = 1 THEN [ret |-> <<>>, exc |-> OperationalError]
    ELSE [ret |-> JoinWorkers(W, P), exc |-> NoExc]

\* the WHERE clause with > for >=
InPeriod_strict(w, period, year) == ToNumber(Str(year)) - w.year > period

\* WHERE (strftime('%Y', date('now')) - workers.worker_year) >= ?
InPeriod(w, period, year) == ToNumber(Str(year)) - w.year >= period

select_by_period(P, W, period, year, f) ==
    IF f = 1 THEN [ret |-> <<>>, exc |-> OperationalError]
    ELSE LET Hit(w) == InPeriod(w, period, year)
         IN  [ret |-> SelectSeq(JoinWorkers(W, P), Hit), exc |-> NoExc]

\* ---------------------------------------------------- pets: shared pieces

\* Owner(id=row[0], name=row[1], phone=row[2])
ToOwner(r) == [id |-> r.owner_id, name |-> r.owner_name, phone |-> r.owner_phone]

\* Pet(id=row[0], name=row[1], species=row[2], breed=row[3], age=row[4],
\*     owner_id=row[5])
ToPet(r) ==
    [id |-> r.pet_id, name |-> r.pet_name, species |-> r.pet_species,
     breed |-> r.pet_breed, age |-> r.pet_age, owner_id |-> r.owner_id]

MapOwners(rows) == [i \in 1..Len(rows) |-> ToOwner(rows[i])]

MapPets(rows) == [i \in 1..Len(rows) |-> ToPet(rows[i])]

\* FROM owners WHERE owner_id = ?
OwnersWithId(O, owner_id) ==
    LET Hit(r) == r.owner_id = owner_id IN SelectSeq(O, Hit)

\* FROM pets WHERE owner_id = ?
PetsWithOwner(PT, owner_id) ==
    LET Hit(r) == r.owner_id = owner_id IN SelectSeq(PT, Hit)

OwnerRow(O, name, phone) ==
    [owner_id |-> NextId(O, "owner_id"), owner_name |-> name, owner_phone |-> phone]

PetRow(PT, name, species, breed, age, owner_id) ==
    [pet_id |-> NextId(PT, "pet_id"), pet_name |-> name, pet_species |-> species,
     pet_breed |-> breed, pet_age |-> age, owner_id |-> owner_id]

\* 'Владелец с ID '
TxtOwnerWithId ==
    <<1042, 1083, 1072, 1076, 1077, 1083, 1077, 1094, 32, 1089, 32, 73, 68, 32>>

\* ' не найден'
TxtNotFound ==
    <<32, 1085, 1077, 32, 1085, 1072, 1081, 1076, 1077, 1085>>

\* ------------------------------------------- pets, raw SQL: zad1.PetRepository

\* 'table owners already exists'
TxtTableExists ==
    <<116, 97, 98, 108, 101, 32, 111, 119, 110, 101, 114, 115, 32, 97, 108, 114,
      101, 97, 100, 121, 32, 101, 120, 105, 115, 116, 115>>

\* CREATE TABLE without IF NOT EXISTS
Z1_create_db_plain(S, f) ==
    IF f = 1 THEN [schema |-> S, exc |-> OperationalError]
    ELSE IF S THEN [schema |-> S,
                    exc |-> [type |-> "OperationalError", msg |-> TxtTableExists]]
    ELSE [schema |-> TRUE, exc |-> NoExc]

\* CREATE TABLE IF NOT EXISTS owners / pets: the rows stay as they are
Z1_create_db(S, f) ==
    IF f = 1 THEN [schema |-> S, exc |-> OperationalError]
    ELSE [schema |-> TRUE, exc |-> NoExc]

Z1_add_owner(O, name, phone, L, f) ==
    IF f = 1 THEN [owners |-> O, exc |-> OperationalError, leak |-> 0, lock |-> FALSE]
    ELSE IF L THEN [owners |-> O, exc |-> LockedError, leak |-> 1, lock |-> FALSE]
    ELSE [owners |-> Append(O, OwnerRow(O, name, phone)),
          exc |-> NoExc, leak |-> 0, lock |-> FALSE]

\* add_pet on a connection that does not enforce foreign keys
Z1_add_pet_no_fk(O, PT, name, species, breed, age, owner_id, L, f) ==
    IF f = 1 THEN [pets |-> PT, exc |-> OperationalError, leak |-> 0, lock |-> FALSE]
    ELSE IF L THEN [pets |-> PT, exc |-> LockedError, leak |-> 1, lock |-> FALSE]
    ELSE [pets |-> Append(PT, PetRow(PT, name, species, breed, age, owner_id)),
          exc |-> NoExc, leak |-> 0, lock |-> FALSE]

\* PRAGMA foreign_keys = ON: the INSERT of a pet whose owner_id names no row
\* of owners raises, and the method ends without commit() and close()
Z1_add_pet(O, PT, name, species, breed, age, owner_id, L, f) ==
    IF f = 1 THEN [pets |-> PT, exc |-> OperationalError, leak |-> 0, lock |-> FALSE]
    ELSE IF L THEN [pets |-> PT, exc |-> LockedError, leak |-> 1, lock |-> FALSE]
    ELSE IF OwnersWithId(O, owner_id) = <<>>
    THEN [pets |-> PT, exc |-> IntegrityError(TxtFk), leak |-> 1, lock |-> TRUE]
    ELSE [pets |-> Append(PT, PetRow(PT, name, species, breed, age, owner_id)),
          exc |-> NoExc, leak |-> 0, lock |-> FALSE]

Z1_get_all_owners(O, f) ==
    IF f = 1 THEN [ret |-> <<>>, exc |-> OperationalError]
    ELSE [ret |-> MapOwners(OrderBy(O, "owner_name")), exc |-> NoExc]

Z1_get_all_pets(PT, f) ==
    IF f = 1 THEN [ret |-> <<>>, exc |-> OperationalError]
    ELSE [ret |-> MapPets(OrderBy(PT, "pet_name")), exc |-> NoExc]

Z1_get_pets_by_owner(O, PT, owner_id, f) ==
    IF f = 1 THEN [ret |-> <<>>, exc |-> OperationalError]
    ELSE [ret |-> MapPets(OrderBy(PetsWithOwner(PT, owner_id), "pet_name")),
          exc |-> NoExc]

Z1_get_owner_by_id(O, owner_id, f) ==
    IF f = 1 THEN [ret |-> <<>>, exc |-> OperationalError]
    ELSE LET rows == OwnersWithId(O, owner_id)
         IN  [ret |-> IF rows = <<>> THEN <<>> ELSE <<ToOwner(rows[1])>>,
              exc |-> NoExc]

\* ----------------------------------------- pets, SQLAlchemy: zad2.PetRepository

\* Base.metadata.create_all(engine): creates the tables that are missing
Z2_init(S, f) ==
    IF f = 1 THEN [schema |-> S, exc |-> SaOperationalError]
    ELSE [schema |-> TRUE, exc |-> NoExc]

Z2_add_owner(O, name, phone, f) ==
    IF f = 1 THEN [owners |-> O, exc |-> SaOperationalError]
    ELSE [owners |-> Append(O, OwnerRow(O, name, phone)), exc |-> NoExc]

\* add_pet without the look-up of the owner
Z2_add_pet_no_check(O, PT, name, species, breed, age, owner_id, f) ==
    IF f = 1 THEN [pets |-> PT, exc |-> SaOperationalError]
    ELSE [pets |-> Append(PT, PetRow(PT, name, species, breed, age, owner_id)),
          exc |-> NoExc]

Z2_add_pet(O, PT, name, species, breed, age, owner_id, f) ==
    IF f = 1 THEN [pets |-> PT, exc |-> SaOperationalError]
    ELSE IF OwnersWithId(O, owner_id) = <<>>
    THEN [pets |-> PT,
          exc |-> ValueError(TxtOwnerWithId \o Str(owner_id) \o TxtNotFound)]
    ELSE [pets |-> Append(PT, PetRow(PT, name, species, breed, age, owner_id)),
          exc |-> NoExc]

Z2_get_all_owners(O, f) ==
    IF f = 1 THEN [ret |-> <<>>, exc |-> SaOperationalError]
    ELSE [ret |-> MapOwners(OrderBy(O, "owner_name")), exc |-> NoExc]

Z2_get_all_pets(PT, f) ==
    IF f = 1 THEN [ret |-> <<>>, exc |-> SaOperationalError]
    ELSE [ret |-> MapPets(OrderBy(PT, "pet_name")), exc |-> NoExc]

Z2_get_pets_by_owner(O, PT, owner_id, f) ==
    IF f = 1 THEN [ret |-> <<>>, exc |-> SaOperationalError]
    ELSE IF OwnersWithId(O, owner_id) = <<>>
    THEN [ret |-> <<>>,
          exc |-> ValueError(TxtOwnerWithId \o Str(owner_id) \o TxtNotFound)]
    ELSE [ret |-> MapPets(OrderBy(PetsWithOwner(PT, owner_id), "pet_name")),
          exc |-> NoExc]

Z2_get_owner_by_id(O, owner_id, f) ==
    IF f = 1 THEN [ret |-> <<>>, exc |-> SaOperationalError]
    ELSE LET rows == OwnersWithId(O, owner_id)
         IN  [ret |-> IF rows = <<>> THEN <<>> ELSE <<ToOwner(rows[1])>>,
              exc |-> NoExc]

\* -------------------------------------------------------------- formatters

\* 'Spisok rabotnikov pust.'
MsgWorkersEmpty ==
    <<1057, 1087, 1080, 1089, 1086, 1082, 32, 1088, 1072, 1073, 1086, 1090, 1085,
      1080, 1082, 1086, 1074, 32, 1087, 1091, 1089, 1090, 46>>

\* the numero sign
LblNo ==
    <<8470>>

\* 'F.I.O.'
LblFio ==
    <<1060, 46, 1048, 46, 1054, 46>>

\* 'Dolzhnost'
LblPost ==
    <<1044, 1086, 1083, 1078, 1085, 1086, 1089, 1090, 1100>>

\* 'God'
LblYear ==
    <<1043, 1086, 1076>>

\* 'Spisok vladeltsev pust.'
MsgOwnersEmpty ==
    <<1057, 1087, 1080, 1089, 1086, 1082, 32, 1074, 1083, 1072, 1076, 1077, 1083,
      1100, 1094, 1077, 1074, 32, 1087, 1091, 1089, 1090, 46>>

\* 'Spisok zhivotnykh pust.'
MsgPetsEmpty ==
    <<1057, 1087, 1080, 1089, 1086, 1082, 32, 1078, 1080, 1074, 1086, 1090, 1085,
      1099, 1093, 32, 1087, 1091, 1089, 1090, 46>>

\* 'ID'
LblId ==
    <<73, 68>>

\* 'Imya vladeltsa'
LblOwnerName ==
    <<1048, 1084, 1103, 32, 1074, 1083, 1072, 1076, 1077, 1083, 1100, 1094, 1072>>

\* 'Telefon'
LblPhone ==
    <<1058, 1077, 1083, 1077, 1092, 1086, 1085>>

\* 'Klichka'
LblPetName ==
    <<1050, 1083, 1080, 1095, 1082, 1072>>

\* 'Vid'
LblSpecies ==
    <<1042, 1080, 1076>>

\* 'Poroda'
LblBreed ==
    <<1055, 1086, 1088, 1086, 1076, 1072>>

\* 'Vozrast'
LblAge ==
    <<1042, 1086, 1079, 1088, 1072, 1089, 1090>>

\* 'ID vladeltsa'
LblOwnerId ==
    <<73, 68, 32, 1074, 1083, 1072, 1076, 1077, 1083, 1100, 1094, 1072>>

\* example1.display_workers
display_workers(ws) ==
    IF ws = <<>> THEN <<MsgWorkersEmpty>>
    ELSE LET line == FormatLine(<<6, 32, 22, 10>>)
             w == <<6, 30, 20, 8>>
         IN  <<line, FormatRow(<<LblNo, LblFio, LblPost, LblYear>>, w), line>>
             \o [i \in 1..Len(ws) |->
                    FormatRow(<<Str(i), ws[i].name, ws[i].post, Str(ws[i].year)>>, w)]
             \o <<line>>

\* display_owners printing the frame of the table for the empty list too
display_owners_frame(os) ==
    LET line == FormatLine(<<6, 25, 15>>)
        w == <<6, 25, 15>>
    IN  <<line, FormatRow(<<LblId, LblOwnerName, LblPhone>>, w), line>>
        \o [i \in 1..Len(os) |->
               FormatRow(<<Str(os[i].id), os[i].name, os[i].phone>>, w)]
        \o <<line>>

\* zad1.display_owners, zad2.display_owners (the same text)
display_owners(os) ==
    IF os = <<>> THEN <<MsgOwnersEmpty>>
    ELSE LET line == FormatLine(<<6, 25, 15>>)
             w == <<6, 25, 15>>
         IN  <<line, FormatRow(<<LblId, LblOwnerName, LblPhone>>, w), line>>
             \o [i \in 1..Len(os) |->
                    FormatRow(<<Str(os[i].id), os[i].name, os[i].phone>>, w)]
             \o <<line>>

\* zad1.display_pets, zad2.display_pets (the same text)
display_pets(ps, show_owner) ==
    IF ps = <<>> THEN <<MsgPetsEmpty>>
    ELSE IF show_owner
    THEN LET line == FormatLine(<<6, 15, 15, 20, 6, 15>>)
             w == <<6, 15, 15, 20, 6, 15>>
         IN  <<line,
               FormatRow(<<LblId, LblPetName, LblSpecies, LblBreed, LblAge,
                           LblOwnerId>>, w),
               line>>
             \o [i \in 1..Len(ps) |->
                    FormatRow(<<Str(ps[i].id), ps[i].name, ps[i].species,
                                ps[i].breed, Str(ps[i].age), Str(ps[i].owner_id)>>, w)]
             \o <<line>>
    ELSE LET line == FormatLine(<<6, 15, 15, 20, 6>>)
             w == <<6, 15, 15, 20, 6>>
         IN  <<line,
               FormatRow(<<LblId, LblPetName, LblSpecies, LblBreed, LblAge>>, w),
               line>>
             \o [i \in 1..Len(ps) |->
                    FormatRow(<<Str(ps[i].id), ps[i].name, ps[i].species,
                                ps[i].breed, Str(ps[i].age)>>, w)]
             \o <<line>>

\* ------------------------------------------------------------------ main

\* 'Rabotnik '
TxtWorker ==
    <<1056, 1072, 1073, 1086, 1090, 1085, 1080, 1082, 32>>

\* ' uspeshno dobavlen!'
TxtAddedM ==
    <<32, 1091, 1089, 1087, 1077, 1096, 1085, 1086, 32, 1076, 1086, 1073, 1072,
      1074, 1083, 1077, 1085, 33>>

\* 'Vladelets ' and a quote
TxtOwnerQ ==
    <<1042, 1083, 1072, 1076, 1077, 1083, 1077, 1094, 32, 39>>

\* a quote and ' uspeshno dobavlen!'
TxtAddedMQ ==
    <<39, 32, 1091, 1089, 1087, 1077, 1096, 1085, 1086, 32, 1076, 1086, 1073, 1072,
      1074, 1083, 1077, 1085, 33>>

\* 'Oshibka pri dobavlenii vladeltsa: '
TxtErrAddOwner ==
    <<1054, 1096, 1080, 1073, 1082, 1072, 32, 1087, 1088, 1080, 32, 1076, 1086,
      1073, 1072, 1074, 1083, 1077, 1085, 1080, 1080, 32, 1074, 1083, 1072, 1076,
      1077, 1083, 1100, 1094, 1072, 58, 32>>

\* 'Oshibka: Vladelets s ID '
TxtErrOwnerId ==
    <<1054, 1096, 1080, 1073, 1082, 1072, 58, 32, 1042, 1083, 1072, 1076, 1077,
      1083, 1077, 1094, 32, 1089, 32, 73, 68, 32>>

\* ' ne naiden!'
TxtNotFoundBang ==
    <<32, 1085, 1077, 32, 1085, 1072, 1081, 1076, 1077, 1085, 33>>

\* 'Zhivotnoe ' and a quote
TxtPetQ ==
    <<1046, 1080, 1074, 1086, 1090, 1085, 1086, 1077, 32, 39>>

\* a quote and ' uspeshno dobavleno!'
TxtAddedNQ ==
    <<39, 32, 1091, 1089, 1087, 1077, 1096, 1085, 1086, 32, 1076, 1086, 1073, 1072,
      1074, 1083, 1077, 1085, 1086, 33>>

\* 'Oshibka pri dobavlenii zhivotnogo: '
TxtErrAddPet ==
    <<1054, 1096, 1080, 1073, 1082, 1072, 32, 1087, 1088, 1080, 32, 1076, 1086,
      1073, 1072, 1074, 1083, 1077, 1085, 1080, 1080, 32, 1078, 1080, 1074, 1086,
      1090, 1085, 1086, 1075, 1086, 58, 32>>

\* 'Oshibka pri poluchenii spiska vladeltsev: '
TxtErrListOwners ==
    <<1054, 1096, 1080, 1073, 1082, 1072, 32, 1087, 1088, 1080, 32, 1087, 1086,
      1083, 1091, 1095, 1077, 1085, 1080, 1080, 32, 1089, 1087, 1080, 1089, 1082,
      1072, 32, 1074, 1083, 1072, 1076, 1077, 1083, 1100, 1094, 1077, 1074, 58, 32>>

\* 'Oshibka pri poluchenii spiska zhivotnykh: '
TxtErrListPets ==
    <<1054, 1096, 1080, 1073, 1082, 1072, 32, 1087, 1088, 1080, 32, 1087, 1086,
      1083, 1091, 1095, 1077, 1085, 1080, 1080, 32, 1089, 1087, 1080, 1089, 1082,
      1072, 32, 1078, 1080, 1074, 1086, 1090, 1085, 1099, 1093, 58, 32>>

\* 'Zhivotnye vladeltsa ' and a quote
TxtPetsOfOwnerQ ==
    <<1046, 1080, 1074, 1086, 1090, 1085, 1099, 1077, 32, 1074, 1083, 1072, 1076,
      1077, 1083, 1100, 1094, 1072, 32, 39>>

\* a quote and ' (ID: '
TxtIdOpen ==
    <<39, 32, 40, 73, 68, 58, 32>>

\* '):'
TxtIdClose ==
    <<41, 58>>

\* 'Oshibka pri vyborke zhivotnykh: '
TxtErrSelect ==
    <<1054, 1096, 1080, 1073, 1082, 1072, 32, 1087, 1088, 1080, 32, 1074, 1099,
      1073, 1086, 1088, 1082, 1077, 32, 1078, 1080, 1074, 1086, 1090, 1085, 1099,
      1093, 58, 32>>

\* 'Oshibka: '
TxtErr ==
    <<1054, 1096, 1080, 1073, 1082, 1072, 58, 32>>

\* The commands of main.  a holds the parsed arguments; f names the connection
\* of the whole command that sqlite3.connect fails to open (0: none).  The
\* result holds the store after the command, the lines printed, the repository
\* methods called, and the exception that left main (NoExc: main returned).

\* example1.main: no try statement
StaffMain(S, P, W, L, year, cmd, a, f) ==
    LET c == Staff_create_db(S, f)
        g == Rest(f, 1)
    IN  IF c.exc # NoExc
        THEN [schema |-> c.schema, posts |-> P, workers |-> W, out |-> <<>>,
              calls |-> <<"StaffRepository">>, exc |-> c.exc, leak |-> 0,
              lock |-> FALSE]
        ELSE IF cmd = "add"
        THEN LET r == add_worker(P, W, a.name, a.post, a.year, L, g)
             IN  [schema |-> c.schema, posts |-> r.posts, workers |-> r.workers,
                  out |-> IF r.exc = NoExc
                          THEN <<TxtWorker \o a.name \o TxtAddedM>> ELSE <<>>,
                  calls |-> <<"StaffRepository", "add_worker">>, exc |-> r.exc,
                  leak |-> r.leak, lock |-> r.lock]
        ELSE IF cmd = "display"
        THEN LET r == get_all_workers(P, W, g)
             IN  [schema |-> c.schema, posts |-> P, workers |-> W,
                  out |-> IF r.exc = NoExc THEN display_workers(r.ret) ELSE <<>>,
                  calls |-> <<"StaffRepository", "get_all_workers">>, exc |-> r.exc,
                  leak |-> 0, lock |-> FALSE]
        ELSE LET r == select_by_period(P, W, a.period, year, g)
             IN  [schema |-> c.schema, posts |-> P, workers |-> W,
                  out |-> IF r.exc = NoExc THEN display_workers(r.ret) ELSE <<>>,
                  calls |-> <<"StaffRepository", "select_by_period">>, exc |-> r.exc,
                  leak |-> 0, lock |-> FALSE]

\* what  except ValueError as e: print('Oshibka: ' + str(e))
\*       except Exception as e: print(prefix + str(e))     leaves of exception e
Z2_except(e, prefix) ==
    IF e.type = "ValueError" THEN [out |-> Lines(TxtErr \o e.msg), exc |-> NoExc]
    ELSE [out |-> Lines(prefix \o e.msg), exc |-> NoExc]

\* zad2.main: the repository is built before the try statements; every
\* session is closed by its with statement
Z2_main(S, O, PT, cmd, a, f) ==
    LET c == Z2_init(S, f)
        g == Rest(f, 1)
        Res(o, p, out_, calls_, e) ==
            [schema |-> c.schema, owners |-> o, pets |-> p, out |-> out_,
             calls |-> <<"PetRepository">> \o calls_, exc |-> e, leak |-> 0,
             lock |-> FALSE]
    IN  IF c.exc # NoExc THEN Res(O, PT, <<>>, <<>>, c.exc)
        ELSE IF cmd = "add_owner"
        THEN LET r == Z2_add_owner(O, a.name, a.phone, g)
             IN  IF r.exc = NoExc
                 THEN Res(r.owners, PT, <<TxtOwnerQ \o a.name \o TxtAddedMQ>>,
                          <<"add_owner">>, NoExc)
                 ELSE Res(r.owners, PT, Lines(TxtErrAddOwner \o r.exc.msg),
                          <<"add_owner">>, NoExc)
        ELSE IF cmd = "add_pet"
        THEN LET r == Z2_add_pet(O, PT, a.name, a.species, a.breed, a.age, a.owner, g)
                 h == Z2_except(r.exc, TxtErrAddPet)
             IN  IF r.exc = NoExc
                 THEN Res(O, r.pets, <<TxtPetQ \o a.name \o TxtAddedNQ>>,
                          <<"add_pet">>, NoExc)
                 ELSE Res(O, r.pets, h.out, <<"add_pet">>, h.exc)
        ELSE IF cmd = "display_owners"
        THEN LET r == Z2_get_all_owners(O, g)
             IN  IF r.exc = NoExc
                 THEN Res(O, PT, display_owners(r.ret), <<"get_all_owners">>, NoExc)
                 ELSE Res(O, PT, Lines(TxtErrListOwners \o r.exc.msg),
                          <<"get_all_owners">>, NoExc)
        ELSE IF cmd = "display_pets"
        THEN LET r == Z2_get_all_pets(PT, g)
             IN  IF r.exc = NoExc
                 THEN Res(O, PT, display_pets(r.ret, TRUE), <<"get_all_pets">>, NoExc)
                 ELSE Res(O, PT, Lines(TxtErrListPets \o r.exc.msg),
                          <<"get_all_pets">>, NoExc)
        ELSE LET q == Z2_get_owner_by_id(O, a.owner, g)
                 r == Z2_get_pets_by_owner(O, PT, a.owner, Rest(g, 1))
             IN  IF q.exc # NoExc
                 THEN LET h == Z2_except(q.exc, TxtErrSelect)
                      IN  Res(O, PT, h.out, <<"get_owner_by_id">>, h.exc)
                 ELSE IF q.ret = <<>>
                 THEN Res(O, PT, <<TxtErrOwnerId \o Str(a.owner) \o TxtNotFoundBang>>,
                          <<"get_owner_by_id">>, NoExc)
                 ELSE IF r.exc # NoExc
                 THEN LET h == Z2_except(r.exc, TxtErrSelect)
                      IN  Res(O, PT, h.out, <<"get_owner_by_id", "get_pets_by_owner">>,
                              h.exc)
                 ELSE Res(O, PT,
                          <<TxtPetsOfOwnerQ \o q.ret[1].name \o TxtIdOpen
                                \o Str(q.ret[1].id) \o TxtIdClose>>
                              \o display_pets(r.ret, FALSE),
                          <<"get_owner_by_id", "get_pets_by_owner">>, NoExc)

\* zad1.main with add_pet and select_pets_by_owner not looking the owner up
\* first: the dispatcher of the other variant
Z1_main_unchecked(S, O, PT, L, cmd, a, f) == Z2_main(S, O, PT, cmd, a, f)

\* what  except sqlite3.Error as e: print(prefix + str(e))  leaves of exception e
Z1_except(e, prefix) ==
    IF IsSqliteError(e) THEN [out |-> <<prefix \o e.msg>>, exc |-> NoExc]
    ELSE [out |-> <<>>, exc |-> e]

\* zad1.main: the repository is built before the try statements
Z1_main(S, O, PT, L, cmd, a, f) ==
    LET c == Z1_create_db(S, f)
        g == Rest(f, 1)
        Lk(o, p, out_, calls_, e, k, l) ==
            [schema |-> c.schema, owners |-> o, pets |-> p, out |-> out_,
             calls |-> <<"PetRepository">> \o calls_, exc |-> e, leak |-> k,
             lock |-> l]
        Res(o, p, out_, calls_, e) == Lk(o, p, out_, calls_, e, 0, FALSE)
    IN  IF c.exc # NoExc THEN Res(O, PT, <<>>, <<>>, c.exc)
        ELSE IF cmd = "add_owner"
        THEN LET r == Z1_add_owner(O, a.name, a.phone, L, g)
                 h == Z1_except(r.exc, TxtErrAddOwner)
             IN  IF r.exc = NoExc
                 THEN Res(r.owners, PT, <<TxtOwnerQ \o a.name \o TxtAddedMQ>>,
                          <<"add_owner">>, NoExc)
                 ELSE Lk(r.owners, PT, h.out, <<"add_owner">>, h.exc, r.leak,
                         r.lock)
        ELSE IF cmd = "add_pet"
        THEN LET q == Z1_get_owner_by_id(O, a.owner, g)
                 r == Z1_add_pet(O, PT, a.name, a.species, a.breed, a.age, a.owner,
                                 L, Rest(g, 1))
             IN  IF q.exc # NoExc
                 THEN LET h == Z1_except(q.exc, TxtErrAddPet)
                      IN  Res(O, PT, h.out, <<"get_owner_by_id">>, h.exc)
                 ELSE IF q.ret = <<>>
                 THEN Res(O, PT, <<TxtErrOwnerId \o Str(a.owner) \o TxtNotFoundBang>>,
                          <<"get_owner_by_id">>, NoExc)
                 ELSE IF r.exc # NoExc
                 THEN LET h == Z1_except(r.exc, TxtErrAddPet)
                      IN  Lk(O, r.pets, h.out, <<"get_owner_by_id", "add_pet">>, h.exc,
                             r.leak, r.lock)
                 ELSE Res(O, r.pets, <<TxtPetQ \o a.name \o TxtAddedNQ>>,
                          <<"get_owner_by_id", "add_pet">>, NoExc)
        ELSE IF cmd = "display_owners"
        THEN LET r == Z1_get_all_owners(O, g)
                 h == Z1_except(r.exc, TxtErrListOwners)
             IN  IF r.exc = NoExc
                 THEN Res(O, PT, display_owners(r.ret), <<"get_all_owners">>, NoExc)
                 ELSE Res(O, PT, h.out, <<"get_all_owners">>, h.exc)
        ELSE IF cmd = "display_pets"
        THEN LET r == Z1_get_all_pets(PT, g)
                 h == Z1_except(r.exc, TxtErrListPets)
             IN  IF r.exc = NoExc
                 THEN Res(O, PT, display_pets(r.ret, TRUE), <<"get_all_pets">>, NoExc)
                 ELSE Res(O, PT, h.out, <<"get_all_pets">>, h.exc)
        ELSE LET q == Z1_get_owner_by_id(O, a.owner, g)
                 r == Z1_get_pets_by_owner(O, PT, a.owner, Rest(g, 1))
             IN  IF q.exc # NoExc
                 THEN LET h == Z1_except(q.exc, TxtErrSelect)
                      IN  Res(O, PT, h.out, <<"get_owner_by_id">>, h.exc)
                 ELSE IF q.ret = <<>>
                 THEN Res(O, PT, <<TxtErrOwnerId \o Str(a.owner) \o TxtNotFoundBang>>,
                          <<"get_owner_by_id">>, NoExc)
                 ELSE IF r.exc # NoExc
                 THEN LET h == Z1_except(r.exc, TxtErrSelect)
                      IN  Res(O, PT, h.out, <<"get_owner_by_id", "get_pets_by_owner">>,
                              h.exc)
                 ELSE Res(O, PT,
                          <<TxtPetsOfOwnerQ \o q.ret[1].name \o TxtIdOpen
                                \o Str(q.ret[1].id) \o TxtIdClose>>
                              \o display_pets(r.ret, FALSE),
                          <<"get_owner_by_id", "get_pets_by_owner">>, NoExc)

\* ---------------------------------------------------------------- inputs

Variants == {"staff", "zad1", "zad2"}
ClockYears == {2026}
ThisYear == CHOOSE y \in ClockYears : \A z \in ClockYears : z <= y

Titles == {<<69>>, <<77>>}                  \* 'E', 'M'
WorkerNames == {<<65>>}                     \* 'A'
Years == {2016, 2028}
Periods == {-1, 0, 10}
MainYears == {2016}
MainPeriods == {0}

OwnerNames == {<<73>>}                      \* 'I'
Phones == {<<55>>}                          \* '7'
PetNames == {<<66>>, <<65>>}                \* 'B', 'A'
MainPetNames == {<<66>>}
SpeciesSet == {<<67>>}                      \* 'C'
Breeds == {<<88>>}                          \* 'X'
Ages == {3}
OwnerIds == {1, 2}

\* the connection of an operation that sqlite3.connect fails to open
Faults1 == {0, 1}
Faults2 == {0, 1, 2}

\* the connections a command of main opens: one to build the repository, one
\* for each repository method it calls
Connections(cmd) ==
    IF cmd \in {"add", "add_pet", "select_pets_by_owner"} THEN 3 ELSE 2

\* ------------------------------------------------------------------ state

Init ==
    /\ variant \in Variants
    /\ now_year \in (IF variant = "staff" THEN ClockYears ELSE {ThisYear})
    /\ schema = FALSE
    /\ posts = <<>>
    /\ workers = <<>>
    /\ owners = <<>>
    /\ pets = <<>>
    /\ op = "init"
    /\ args = <<>>
    /\ ret = <<>>
    /\ exc = NoExc
    /\ out = <<>>
    /\ calls = <<>>
    /\ issued = [t \in Titles |-> {}]
    /\ leaked = 0
    /\ locker = FALSE
    /\ pender = FALSE
    /\ added = <<>>
    /\ callers = <<>>
    /\ mirror = <<>>

staffStore == <<posts, workers>>
petStore == <<owners, pets>>
fixed == <<variant, now_year>>

\* one caller at a time, one store: no caller is under way, no commit waits
\* for a reader, no second store
alone == <<callers, pender, mirror>>

Room == /\ Len(posts) < MaxPosts
        /\ Len(workers) < MaxWorkers
        /\ Len(owners) < MaxOwners
        /\ Len(pets) < MaxPets
        /\ leaked < MaxLeaked

\* room for one more pet, whatever the number of owners
PetRoom == /\ Len(pets) < MaxPets
           /\ leaked < MaxLeaked

\* a connection left open holds the write lock
Locked == locker

\* the ids issued so far, with the id r that get_or_create_post(title) gave
Issue(title, r) ==
    IF r.exc = NoExc THEN [issued EXCEPT ![title] = @ \cup {r.ret}] ELSE issued

\* --------------------------------------------------- staff: the operations

\* StaffRepository(db_path)
StaffConstruct ==
    /\ variant = "staff"
    /\ \E f \in Faults1 :
         LET r == Staff_create_db(schema, f)
         IN  /\ schema' = r.schema
             /\ op' = "StaffRepository"
             /\ args' = <<f>>
             /\ ret' = <<>>
             /\ exc' = r.exc
    /\ out' = <<>>
    /\ calls' = <<>>
    /\ UNCHANGED <<fixed, alone, staffStore, petStore, issued, added,
                 leaked, locker>>

GetOrCreatePost ==
    /\ variant = "staff"
    /\ schema
    /\ Room
    /\ \E title \in Titles, f \in Faults1 :
         LET r == get_or_create_post(posts, title, Locked, f)
         IN  /\ posts' = r.posts
             /\ leaked' = leaked + r.leak
             /\ locker' = (locker \/ r.lock)
             /\ op' = "get_or_create_post"
             /\ args' = <<title>>
             /\ ret' = r.ret
             /\ exc' = r.exc
             /\ issued' = Issue(title, r)
    /\ out' = <<>>
    /\ calls' = <<>>
    /\ UNCHANGED <<fixed, alone, schema, workers, petStore, added>>

AddWorker ==
    /\ variant = "staff"
    /\ schema
    /\ Room
    /\ \E name \in WorkerNames \cup {None}, post \in Titles, year \in Years,
          f \in Faults2 :
         LET r == add_worker(posts, workers, name, post, year, Locked, f)
         IN  /\ posts' = r.posts
             /\ leaked' = leaked + r.leak
             /\ locker' = (locker \/ r.lock)
             /\ workers' = r.workers
             /\ op' = "add_worker"
             /\ args' = <<name, post, year>>
             /\ ret' = <<>>
             /\ exc' = r.exc
             /\ issued' = Issue(post, get_or_create_post(posts, post, Locked, f))
             /\ added' = IF r.exc = NoExc
                          THEN Append(added, [name |-> name, post |-> post,
                                              year |-> year])
                          ELSE added
    /\ out' = <<>>
    /\ calls' = <<>>
    /\ UNCHANGED <<fixed, alone, schema, petStore>>

GetAllWorkers ==
    /\ variant = "staff"
    /\ schema
    /\ \E f \in Faults1 :
         LET r == get_all_workers(posts, workers, f)
         IN  /\ op' = "get_all_workers"
             /\ args' = <<>>
             /\ ret' = r.ret
             /\ exc' = r.exc
    /\ out' = <<>>
    /\ calls' = <<>>
    /\ UNCHANGED <<fixed, alone, schema, staffStore, petStore, issued, added,
                 leaked, locker>>

SelectByPeriod ==
    /\ variant = "staff"
    /\ schema
    /\ \E period \in Periods, f \in Faults1 :
         LET r == select_by_period(posts, workers, period, now_year, f)
         IN  /\ op' = "select_by_period"
             /\ args' = <<period>>
             /\ ret' = r.ret
             /\ exc' = r.exc
    /\ out' = <<>>
    /\ calls' = <<>>
    /\ UNCHANGED <<fixed, alone, schema, staffStore, petStore, issued, added,
                 leaked, locker>>

\* example1.main(command_line)
StaffCommands ==
    [cmd : {"add"}, name : WorkerNames, post : Titles, year : MainYears]
        \cup [cmd : {"display"}]
        \cup [cmd : {"select"}, period : MainPeriods]

StaffMainRun ==
    /\ variant = "staff"
    /\ Room
    /\ \E a \in StaffCommands :
       \E f \in 0..Connections(a.cmd) :
         LET r == StaffMain(schema, posts, workers, Locked, now_year, a.cmd, a, f)
         IN  /\ schema' = r.schema
             /\ leaked' = leaked + r.leak
             /\ locker' = (locker \/ r.lock)
             /\ posts' = r.posts
             /\ workers' = r.workers
             /\ op' = "main"
             /\ args' = <<a, f>>
             /\ ret' = <<>>
             /\ exc' = r.exc
             /\ out' = r.out
             /\ calls' = r.calls
             /\ issued' = IF a.cmd = "add" /\ f # 1
                          THEN Issue(a.post, get_or_create_post(posts, a.post, Locked,
                                                               Rest(f, 1)))
                          ELSE issued
             /\ added' = IF a.cmd = "add" /\ r.exc = NoExc
                          THEN Append(added, [name |-> a.name, post |-> a.post,
                                              year |-> a.year])
                          ELSE added
    /\ UNCHANGED <<fixed, alone, petStore>>

\* ---------------------------------------------------- pets: the operations

IsPets == variant \in {"zad1", "zad2"}

\* PetRepository(db_path)
PetConstruct ==
    /\ IsPets
    /\ \E f \in Faults1 :
         LET r == IF variant = "zad1" THEN Z1_create_db(schema, f)
                  ELSE Z2_init(schema, f)
         IN  /\ schema' = r.schema
             /\ op' = "PetRepository"
             /\ args' = <<f>>
             /\ ret' = <<>>
             /\ exc' = r.exc
    /\ out' = <<>>
    /\ calls' = <<>>
    /\ UNCHANGED <<fixed, alone, staffStore, petStore, issued, added,
                 leaked, locker>>

AddOwner ==
    /\ IsPets
    /\ schema
    /\ Room
    /\ \E name \in OwnerNames, phone \in Phones, f \in Faults1 :
         LET r == IF variant = "zad1" THEN Z1_add_owner(owners, name, phone, Locked, f)
                  ELSE Z2_add_owner(owners, name, phone, f) @@ [leak |-> 0, lock |-> FALSE]
         IN  /\ owners' = r.owners
             /\ leaked' = leaked + r.leak
             /\ locker' = (locker \/ r.lock)
             /\ op' = "add_owner"
             /\ args' = <<name, phone>>
             /\ ret' = <<>>
             /\ exc' = r.exc
    /\ out' = <<>>
    /\ calls' = <<>>
    /\ UNCHANGED <<fixed, alone, schema, staffStore, pets, issued, added>>

AddPet ==
    /\ IsPets
    /\ schema
    /\ PetRoom
    /\ \E name \in PetNames, species \in SpeciesSet, breed \in Breeds, age \in Ages,
          owner_id \in OwnerIds, f \in Faults1 :
         LET r == IF variant = "zad1"
                  THEN Z1_add_pet(owners, pets, name, species, breed, age, owner_id,
                                  Locked, f)
                  ELSE Z2_add_pet(owners, pets, name, species, breed, age, owner_id, f)
                           @@ [leak |-> 0, lock |-> FALSE]
         IN  /\ pets' = r.pets
             /\ leaked' = leaked + r.leak
             /\ locker' = (locker \/ r.lock)
             /\ op' = "add_pet"
             /\ args' = <<name, species, breed, age, owner_id>>
             /\ ret' = <<>>
             /\ exc' = r.exc
    /\ out' = <<>>
    /\ calls' = <<>>
    /\ UNCHANGED <<fixed, alone, schema, staffStore, owners, issued, added>>

GetAllOwners ==
    /\ IsPets
    /\ schema
    /\ \E f \in Faults1 :
         LET r == IF variant = "zad1" THEN Z1_get_all_owners(owners, f)
                  ELSE Z2_get_all_owners(owners, f)
         IN  /\ op' = "get_all_owners"
             /\ args' = <<>>
             /\ ret' = r.ret
             /\ exc' = r.exc
    /\ out' = <<>>
    /\ calls' = <<>>
    /\ UNCHANGED <<fixed, alone, schema, staffStore, petStore, issued, added,
                 leaked, locker>>

GetAllPets ==
    /\ IsPets
    /\ schema
    /\ \E f \in Faults1 :
         LET r == IF variant = "zad1" THEN Z1_get_all_pets(pets, f)
                  ELSE Z2_get_all_pets(pets, f)
         IN  /\ op' = "get_all_pets"
             /\ args' = <<>>
             /\ ret' = r.ret
             /\ exc' = r.exc
    /\ out' = <<>>
    /\ calls' = <<>>
    /\ UNCHANGED <<fixed, alone, schema, staffStore, petStore, issued, added,
                 leaked, locker>>

GetPetsByOwner ==
    /\ IsPets
    /\ schema
    /\ \E owner_id \in OwnerIds, f \in Faults1 :
         LET r == IF variant = "zad1"
                  THEN Z1_get_pets_by_owner(owners, pets, owner_id, f)
                  ELSE Z2_get_pets_by_owner(owners, pets, owner_id, f)
         IN  /\ op' = "get_pets_by_owner"
             /\ args' = <<owner_id>>
             /\ ret' = r.ret
             /\ exc' = r.exc
    /\ out' = <<>>
    /\ calls' = <<>>
    /\ UNCHANGED <<fixed, alone, schema, staffStore, petStore, issued, added,
                 leaked, locker>>

GetOwnerById ==
    /\ IsPets
    /\ schema
    /\ \E owner_id \in OwnerIds, f \in Faults1 :
         LET r == IF variant = "zad1" THEN Z1_get_owner_by_id(owners, owner_id, f)
                  ELSE Z2_get_owner_by_id(owners, owner_id, f)
         IN  /\ op' = "get_owner_by_id"
             /\ args' = <<owner_id>>
             /\ ret' = r.ret
             /\ exc' = r.exc
    /\ out' = <<>>
    /\ calls' = <<>>
    /\ UNCHANGED <<fixed, alone, schema, staffStore, petStore, issued, added,
                 leaked, locker>>

\* zad1.main(command_line), zad2.main(command_line)
PetCommands ==
    [cmd : {"add_owner"}, name : OwnerNames, phone : Phones]
        \cup [cmd : {"add_pet"}, name : MainPetNames, species : SpeciesSet,
              breed : Breeds, age : Ages, owner : OwnerIds]
        \cup [cmd : {"display_owners", "display_pets"}]
        \cup [cmd : {"select_pets_by_owner"}, owner : OwnerIds]

PetMainRun ==
    /\ IsPets
    /\ Room
    /\ \E a \in PetCommands :
       \E f \in 0..Connections(a.cmd) :
         LET r == IF variant = "zad1"
                  THEN Z1_main(schema, owners, pets, Locked, a.cmd, a, f)
                  ELSE Z2_main(schema, owners, pets, a.cmd, a, f)
         IN  /\ schema' = r.schema
             /\ leaked' = leaked + r.leak
             /\ locker' = (locker \/ r.lock)
             /\ owners' = r.owners
             /\ pets' = r.pets
             /\ op' = "main"
             /\ args' = <<a, f>>
             /\ ret' = <<>>
             /\ exc' = r.exc
             /\ out' = r.out
             /\ calls' = r.calls
    /\ UNCHANGED <<fixed, alone, staffStore, issued, added>>

\* The collector finalizes connections left open: the transaction of each is
\* rolled back, and the write lock is released with the connection that holds
\* it.  When it runs is not fixed by the program, nor which of the connections
\* it reaches: one that an exception still held by the caller refers to, or
\* one in an older generation than the one collected, stays open.
\* Collected(n, h): what a collection can leave of n connections, of which one
\* holds the write lock when h.
Collected(n, h) ==
    {[leaked |-> n - k, locker |-> (h /\ ~c)] :
        <<k, c>> \in {x \in (1..n) \X BOOLEAN :
                        /\ x[2] => h
                        /\ x[1] - (IF x[2] THEN 1 ELSE 0)
                              <= n - (IF h THEN 1 ELSE 0)}}

Collect ==
    /\ leaked > 0
    /\ \E r \in Collected(leaked, locker) :
         /\ leaked' = r.leaked
         /\ locker' = r.locker
    /\ op' = "collect"
    /\ args' = <<>>
    /\ ret' = <<>>
    /\ exc' = NoExc
    /\ out' = <<>>
    /\ calls' = <<>>
    /\ UNCHANGED <<fixed, alone, schema, staffStore, petStore, issued, added>>

Next ==
    \/ StaffConstruct
    \/ GetOrCreatePost
    \/ AddWorker
    \/ GetAllWorkers
    \/ SelectByPeriod
    \/ StaffMainRun
    \/ PetConstruct
    \/ AddOwner
    \/ AddPet
    \/ GetAllOwners
    \/ GetAllPets
    \/ GetPetsByOwner
    \/ GetOwnerById
    \/ PetMainRun
    \/ Collect

Spec == Init /\ [][Next]_vars

\* ------------------------------------------- the formatters called directly

FmtNames == {<<65>>, <<66, 111>>}           \* 'A', 'Bo'
FmtYears == {2016, -5}
WorkerRecords == [name : FmtNames, post : Titles, year : FmtYears]
OwnerRecords == [id : {1, 1234567}, name : FmtNames, phone : Phones]
PetRecords ==
    [id : {1, 2}, name : FmtNames, species : SpeciesSet, breed : Breeds,
     age : Ages, owner_id : {1, 2}]

\* the lists of at most MaxList records of R
Lists(R) == UNION {[1..n -> R] : n \in 0..MaxList}

\* the calls of the formatters: the function and its arguments
FormatCalls ==
    {<<"display_workers", ws>> : ws \in Lists(WorkerRecords)}
        \cup {<<"display_owners", os>> : os \in Lists(OwnerRecords)}
        \cup {<<"display_pets", ps, b>> : ps \in Lists(PetRecords), b \in BOOLEAN}

\* the call to make is drawn first; the store plays no part
InitFormat ==
    /\ args \in FormatCalls
    /\ variant = (IF args[1] = "display_workers" THEN "staff" ELSE "zad1")
    /\ now_year = ThisYear
    /\ schema = FALSE
    /\ posts = <<>>
    /\ workers = <<>>
    /\ owners = <<>>
    /\ pets = <<>>
    /\ op = "init"
    /\ ret = <<>>
    /\ exc = NoExc
    /\ out = <<>>
    /\ calls = <<>>
    /\ issued = [t \in Titles |-> {}]
    /\ leaked = 0
    /\ locker = FALSE
    /\ pender = FALSE
    /\ added = <<>>
    /\ callers = <<>>
    /\ mirror = <<>>

formatFrame ==
    <<fixed, alone, schema, staffStore, petStore, issued, leaked, locker, added, args,
      ret, exc, calls>>

DisplayWorkers ==
    /\ op = "init"
    /\ args[1] = "display_workers"
    /\ op' = "display_workers"
    /\ out' = display_workers(args[2])
    /\ UNCHANGED formatFrame

DisplayOwners ==
    /\ op = "init"
    /\ args[1] = "display_owners"
    /\ op' = "display_owners"
    /\ out' = display_owners(args[2])
    /\ UNCHANGED formatFrame

DisplayPets ==
    /\ op = "init"
    /\ args[1] = "display_pets"
    /\ op' = "display_pets"
    /\ out' = display_pets(args[2], args[3])
    /\ UNCHANGED formatFrame

NextFormat ==
    \/ DisplayWorkers
    \/ DisplayOwners
    \/ DisplayPets

SpecFormat == InitFormat /\ [][NextFormat]_vars

\* ------------------------------ staff: callers that run at the same time
\*
\* Each caller runs get_or_create_post or add_worker on the one database
\* file, a statement at a time.  The locks are those of SQLite's rollback
\* journal:
\*   - a SELECT that has a row to give holds the shared lock from
\*     cursor.execute until the statement has given its last row (the
\*     fetchone that finds no further row) or, when rows remain, until the
\*     cursor goes with the end of the call;
\*   - an INSERT takes the write lock until its commit; an INSERT that finds
\*     the write lock taken waits for it, and raises when the busy timeout
\*     ends first;
\*   - conn.commit() needs the file to itself: while a reader holds the
\*     shared lock it waits, and raises when the busy timeout ends first; the
\*     connection, left open, then keeps the pending lock and the row it did
\*     not commit, and no statement of another connection gets at the file
\*     until the collector closes it, which rolls the row back.

Callers == 1..MaxCallers
ConcurrentOps == {"get_or_create_post", "add_worker"}

\* The callers start from a store as earlier calls left it: empty, with one
\* post, or with the two posts of one title of an earlier race; and a
\* connection that an earlier call left open in conn.commit() may still be
\* open.
RaceStores ==
    {<<>>,
     <<[post_id |-> 1, post_title |-> <<69>>]>>,
     <<[post_id |-> 1, post_title |-> <<69>>],
       [post_id |-> 2, post_title |-> <<69>>]>>}

Called(o, title) ==
    [op |-> o, title |-> title, pc |-> "called", missed |-> FALSE,
     row |-> <<>>, post_id |-> 0, exc |-> NoExc]

InitRace ==
    /\ variant = "staff"
    /\ now_year = ThisYear
    /\ schema = TRUE
    /\ posts \in RaceStores
    /\ workers = <<>>
    /\ owners = <<>>
    /\ pets = <<>>
    /\ op = "init"
    /\ args = <<>>
    /\ ret = <<>>
    /\ exc = NoExc
    /\ out = <<>>
    /\ calls = <<>>
    /\ issued = [t \in Titles |-> {posts[i].post_id : i \in
                                      {j \in 1..Len(posts) : posts[j].post_title = t}}]
    /\ pender \in BOOLEAN
    /\ locker = pender
    /\ leaked = (IF pender THEN 1 ELSE 0)
    /\ added = <<>>
    /\ callers \in [Callers -> {Called(o, t) : o \in ConcurrentOps, t \in Titles}]
    /\ mirror = <<>>

raceFrame ==
    <<fixed, schema, petStore, op, args, ret, exc, out, calls, mirror>>
raceLocks == <<leaked, locker, pender>>

\* another connection holds the write lock: an INSERT of another caller is
\* not committed yet, or a connection left open holds it
WriteLocked(c) ==
    \/ locker
    \/ \E d \in Callers \ {c} : callers[d].pc \in {"inserted", "worker_inserted"}

\* caller c holds the shared lock: its SELECT has a row to give and
\* fetchone has not run, or fetchone gave the first of several rows
Shared(c) ==
    \/ callers[c].pc = "executed" /\ ~callers[c].missed
    \/ /\ callers[c].pc = "fetched"
       /\ Len(SelectPostIds(posts, callers[c].title)) > 1

\* a reader other than c holds the shared lock
ReadHeld(c) == \E d \in Callers \ {c} : Shared(d)

\* conn = self._connect(); cursor = conn.cursor();
\* cursor.execute("SELECT post_id ...")
RaceExecute(c) ==
    /\ callers[c].pc = "called"
    /\ ~pender
    /\ callers' = [callers EXCEPT
                      ![c].pc = "executed",
                      ![c].missed = (SelectPostIds(posts, callers[c].title) = <<>>)]
    /\ UNCHANGED <<raceFrame, raceLocks, staffStore, issued, added>>

\* row = cursor.fetchone()
RaceFetch(c) ==
    /\ callers[c].pc = "executed"
    /\ IF callers[c].missed
       THEN callers' = [callers EXCEPT ![c].pc = "selected"]
       ELSE callers' = [callers EXCEPT
                           ![c].pc = "fetched",
                           ![c].post_id = SelectPostIds(posts, callers[c].title)[1]]
    /\ UNCHANGED <<raceFrame, raceLocks, staffStore, issued, added>>

\* post_id = row[0]; conn.close(); return post_id
RaceReturn(c) ==
    /\ callers[c].pc = "fetched"
    /\ callers' = [callers EXCEPT ![c].pc = "returned"]
    /\ issued' = [issued EXCEPT ![callers[c].title] = @ \cup {callers[c].post_id}]
    /\ UNCHANGED <<raceFrame, raceLocks, staffStore, added>>

\* cursor.execute("INSERT INTO posts ..."); post_id = cursor.lastrowid
RaceInsert(c) ==
    /\ callers[c].pc = "selected"
    /\ ~WriteLocked(c)
    /\ LET row == PostRow(posts, callers[c].title)
       IN  callers' = [callers EXCEPT ![c].pc = "inserted", ![c].row = row,
                                      ![c].post_id = row.post_id]
    /\ UNCHANGED <<raceFrame, raceLocks, staffStore, issued, added>>

\* conn.commit(); conn.close(); return post_id
RaceCommit(c) ==
    /\ callers[c].pc = "inserted"
    /\ ~ReadHeld(c)
    /\ posts' = CommitPost(posts, callers[c].row)
    /\ callers' = [callers EXCEPT ![c].pc = "returned", ![c].row = <<>>]
    /\ issued' = [issued EXCEPT ![callers[c].title] = @ \cup {callers[c].post_id}]
    /\ UNCHANGED <<raceFrame, raceLocks, workers, added>>

\* add_worker after get_or_create_post returned: the INSERT INTO workers
RaceWorkerInsert(c) ==
    /\ callers[c].op = "add_worker"
    /\ callers[c].pc = "returned"
    /\ ~WriteLocked(c)
    /\ \E name \in WorkerNames, year \in MainYears :
         callers' = [callers EXCEPT
                        ![c].pc = "worker_inserted",
                        ![c].row = WorkerRow(workers, name, callers[c].post_id, year)]
    /\ UNCHANGED <<raceFrame, raceLocks, staffStore, issued, added>>

\* conn.commit(); conn.close() of add_worker
RaceWorkerCommit(c) ==
    /\ callers[c].pc = "worker_inserted"
    /\ ~ReadHeld(c)
    /\ workers' = Append(workers, callers[c].row)
    /\ callers' = [callers EXCEPT ![c].pc = "done", ![c].row = <<>>]
    /\ added' = Append(added, [name |-> callers[c].row.worker_name,
                               post |-> callers[c].title,
                               year |-> callers[c].row.worker_year])
    /\ UNCHANGED <<raceFrame, raceLocks, posts, issued>>

\* the SELECT finds the pending lock of a connection left open, waits, and
\* raises OperationalError when the busy timeout ends; the exception leaves
\* the call, the connection stays open
RaceSelectBusy(c) ==
    /\ callers[c].pc = "called"
    /\ pender
    /\ callers' = [callers EXCEPT ![c].pc = "raised", ![c].exc = LockedError]
    /\ leaked' = leaked + 1
    /\ UNCHANGED <<raceFrame, locker, pender, staffStore, issued, added>>

\* an INSERT whose wait for the write lock outlasts the busy timeout raises
\* OperationalError; the exception leaves the call, the connection stays open
RaceBusy(c) ==
    /\ \/ callers[c].pc = "selected"
       \/ callers[c].op = "add_worker" /\ callers[c].pc = "returned"
    /\ WriteLocked(c)
    /\ callers' = [callers EXCEPT ![c].pc = "raised", ![c].exc = LockedError]
    /\ leaked' = leaked + 1
    /\ UNCHANGED <<raceFrame, locker, pender, staffStore, issued, added>>

\* conn.commit() whose wait for the readers outlasts the busy timeout raises
\* OperationalError: the row is not stored, the exception leaves the call,
\* and the connection stays open with the pending lock
RaceCommitBusy(c) ==
    /\ callers[c].pc \in {"inserted", "worker_inserted"}
    /\ ReadHeld(c)
    /\ callers' = [callers EXCEPT ![c].pc = "raised", ![c].row = <<>>,
                                  ![c].exc = LockedError]
    /\ leaked' = leaked + 1
    /\ locker' = TRUE
    /\ pender' = TRUE
    /\ UNCHANGED <<raceFrame, staffStore, issued, added>>

\* the collector closes connections that raising calls left open, at any point
\* between the statements of the callers still under way; the one that holds
\* the pending lock gives it up, and its row is rolled back
RaceCollect ==
    /\ leaked > 0
    /\ \E r \in Collected(leaked, locker) :
         /\ leaked' = r.leaked
         /\ locker' = r.locker
         /\ pender' = (pender /\ r.locker)
    /\ UNCHANGED <<raceFrame, staffStore, issued, added, callers>>

NextRace ==
    \/ \E c \in Callers : RaceExecute(c)
    \/ \E c \in Callers : RaceFetch(c)
    \/ \E c \in Callers : RaceReturn(c)
    \/ \E c \in Callers : RaceInsert(c)
    \/ \E c \in Callers : RaceCommit(c)
    \/ \E c \in Callers : RaceWorkerInsert(c)
    \/ \E c \in Callers : RaceWorkerCommit(c)
    \/ \E c \in Callers : RaceSelectBusy(c)
    \/ \E c \in Callers : RaceBusy(c)
    \/ \E c \in Callers : RaceCommitBusy(c)
    \/ RaceCollect

SpecRace == InitRace /\ [][NextRace]_vars

\* ------------------------------------ pets: zad1 and zad2 side by side
\*
\* One sequence of repository calls is made on a zad1.PetRepository, whose
\* store is owners and pets, and on a zad2.PetRepository, whose store and
\* last outcome are in mirror.  Both files open without fault.

InitPair ==
    /\ variant = "zad1"
    /\ now_year = ThisYear
    /\ schema = TRUE
    /\ posts = <<>>
    /\ workers = <<>>
    /\ owners = <<>>
    /\ pets = <<>>
    /\ op = "init"
    /\ args = <<>>
    /\ ret = <<>>
    /\ exc = NoExc
    /\ out = <<>>
    /\ calls = <<>>
    /\ issued = [t \in Titles |-> {}]
    /\ leaked = 0
    /\ locker = FALSE
    /\ pender = FALSE
    /\ added = <<>>
    /\ callers = <<>>
    /\ mirror = [owners |-> <<>>, pets |-> <<>>, ret |-> <<>>, exc |-> NoExc]

pairFrame ==
    <<fixed, schema, staffStore, out, calls, issued, added, callers, pender>>

PairRoom ==
    /\ Room
    /\ Len(mirror.owners) < MaxOwners
    /\ Len(mirror.pets) < MaxPets

PairAddOwner ==
    /\ PairRoom
    /\ \E name \in OwnerNames, phone \in Phones :
         LET r == Z1_add_owner(owners, name, phone, Locked, 0)
             m == Z2_add_owner(mirror.owners, name, phone, 0)
         IN  /\ owners' = r.owners
             /\ leaked' = leaked + r.leak
             /\ locker' = (locker \/ r.lock)
             /\ op' = "add_owner"
             /\ args' = <<name, phone>>
             /\ ret' = <<>>
             /\ exc' = r.exc
             /\ mirror' = [mirror EXCEPT !.owners = m.owners, !.ret = <<>>,
                                         !.exc = m.exc]
    /\ UNCHANGED <<pairFrame, pets>>

PairAddPet ==
    /\ PairRoom
    /\ \E name \in PetNames, species \in SpeciesSet, breed \in Breeds, age \in Ages,
          owner_id \in OwnerIds :
         LET r == Z1_add_pet(owners, pets, name, species, breed, age, owner_id,
                             Locked, 0)
             m == Z2_add_pet(mirror.owners, mirror.pets, name, species, breed, age,
                             owner_id, 0)
         IN  /\ pets' = r.pets
             /\ leaked' = leaked + r.leak
             /\ locker' = (locker \/ r.lock)
             /\ op' = "add_pet"
             /\ args' = <<name, species, breed, age, owner_id>>
             /\ ret' = <<>>
             /\ exc' = r.exc
             /\ mirror' = [mirror EXCEPT !.pets = m.pets, !.ret = <<>>, !.exc = m.exc]
    /\ UNCHANGED <<pairFrame, owners>>

\* a query: r is its outcome on zad1, m its outcome on zad2
PairQuery(a, r, m) ==
    /\ args' = a
    /\ ret' = r.ret
    /\ exc' = r.exc
    /\ mirror' = [mirror EXCEPT !.ret = m.ret, !.exc = m.exc]
    /\ UNCHANGED <<pairFrame, petStore, leaked, locker>>

PairGetAllOwners ==
    /\ op' = "get_all_owners"
    /\ PairQuery(<<>>, Z1_get_all_owners(owners, 0),
                 Z2_get_all_owners(mirror.owners, 0))

PairGetAllPets ==
    /\ op' = "get_all_pets"
    /\ PairQuery(<<>>, Z1_get_all_pets(pets, 0), Z2_get_all_pets(mirror.pets, 0))

PairGetPetsByOwner ==
    /\ op' = "get_pets_by_owner"
    /\ \E owner_id \in OwnerIds :
         PairQuery(<<owner_id>>,
                   Z1_get_pets_by_owner(owners, pets, owner_id, 0),
                   Z2_get_pets_by_owner(mirror.owners, mirror.pets, owner_id, 0))

PairGetOwnerById ==
    /\ op' = "get_owner_by_id"
    /\ \E owner_id \in OwnerIds :
         PairQuery(<<owner_id>>,
                   Z1_get_owner_by_id(owners, owner_id, 0),
                   Z2_get_owner_by_id(mirror.owners, owner_id, 0))

\* the collector closes the connections zad1 left open
PairCollect ==
    /\ leaked > 0
    /\ \E r \in Collected(leaked, locker) :
         /\ leaked' = r.leaked
         /\ locker' = r.locker
    /\ op' = "collect"
    /\ args' = <<>>
    /\ ret' = <<>>
    /\ exc' = NoExc
    /\ mirror' = [mirror EXCEPT !.ret = <<>>, !.exc = NoExc]
    /\ UNCHANGED <<pairFrame, petStore>>

NextPair ==
    \/ PairAddOwner
    \/ PairAddPet
    \/ PairGetAllOwners
    \/ PairGetAllPets
    \/ PairGetPetsByOwner
    \/ PairGetOwnerById
    \/ PairCollect

SpecPair == InitPair /\ [][NextPair]_vars

\* ================================================================= claims

Range(q) == {q[i] : i \in 1..Len(q)}

\* ---- C1
\* C1: in the staff variant, under sequential calls, get_or_create_post returns
\* one id per title however often it is called with that title (a later call
\* with the title adds no second row for it), and the ids it returns for two
\* different titles differ.
C1_GetOrCreateSameId ==
    \A t \in Titles :
        /\ Cardinality(issued[t]) <= 1
        /\ issued[t] # {} =>
              /\ Len(SelectPostIds(posts, t)) = 1
              /\ SelectPostIds(posts, t)[1] \in issued[t]
        /\ \A u \in Titles \ {t} : issued[t] \cap issued[u] = {}

\* a call that found the row of its title: it returned id 1 with two posts stored
C1_Witness ==
    /\ op = "get_or_create_post"
    /\ exc = NoExc
    /\ Len(posts) = 2
    /\ ret = 1
    /\ \A t \in Titles : issued[t] # {}

\* ---- C2
NoOwner(id) == \A i \in 1..Len(owners) : owners[i].owner_id # id

\* C2: in both pet variants, add_pet with an owner_id that names no owner row
\* ends with an error and leaves the pets table and the owners table holding
\* the rows they held before the call (also when main makes the call).
C2_AddPetRejected ==
    [][ /\ (op' = "add_pet" /\ NoOwner(args'[5]))
            => (exc' # NoExc /\ pets' = pets /\ owners' = owners)
        /\ (op' = "main" /\ args'[1].cmd = "add_pet" /\ NoOwner(args'[1].owner))
            => (pets' = pets /\ owners' = owners) ]_vars

\* a rejected add_pet on a store that holds an owner and a pet
C2_Witness ==
    /\ op = "add_pet"
    /\ NoOwner(args[5])
    /\ exc.type \in {"IntegrityError", "ValueError"}
    /\ Len(owners) >= 1
    /\ Len(pets) >= 1

\* ---- C3
\* C3: in every variant, every stored child row (worker, pet) carries the id
\* of a stored parent row (post, owner).
C3_ChildHasParent ==
    /\ \A i \in 1..Len(workers) :
          \E j \in 1..Len(posts) : posts[j].post_id = workers[i].post_id
    /\ \A i \in 1..Len(pets) :
          \E j \in 1..Len(owners) : owners[j].owner_id = pets[i].owner_id

\* a pet is stored and an add_pet naming no owner was just rejected
C3_Witness ==
    /\ op = "add_pet"
    /\ exc # NoExc
    /\ exc.type # "OperationalError"
    /\ Len(pets) >= 1

\* ---- C4
\* l lists exactly the stored pets of owner id, each once, by name ascending
ListsPetsOf(l, id) ==
    /\ \A i \in 1..Len(l) : l[i].owner_id = id
    /\ \A i \in 1..Len(l) : \E k \in 1..Len(pets) : l[i] = ToPet(pets[k])
    /\ \A k \in 1..Len(pets) :
          pets[k].owner_id = id =>
              Cardinality({i \in 1..Len(l) : l[i].id = pets[k].pet_id}) = 1
    /\ \A i, j \in 1..Len(l) : i < j => TextLeq(l[i].name, l[j].name)

\* C4: get_pets_by_owner(id) returns, for every owner id, whether or not an
\* owner with the id exists, the list of exactly the stored pets of that owner,
\* each once, by name ascending (no storage fault).
C4_ListByOwner ==
    (op = "get_pets_by_owner" /\ exc.type # "OperationalError")
        => (exc = NoExc /\ ListsPetsOf(ret, args[1]))

\* ---- C5
\* the Worker record of row w of workers
WorkerOf(w) ==
    [name |-> w.worker_name,
     post |-> (CHOOSE p \in Range(posts) : p.post_id = w.post_id).post_title,
     year |-> w.worker_year]

\* C5: select_by_period(period) returns exactly the stored workers whose age
\* (current year minus stored year) is at least period, for every integer
\* period: each such worker once, no other.
C5_SelectByPeriod ==
    (op = "select_by_period" /\ exc = NoExc) =>
        LET due == {i \in 1..Len(workers) : now_year - workers[i].worker_year >= args[1]}
        IN  /\ Len(ret) = Cardinality(due)
            /\ \A v \in Range(ret) \cup {WorkerOf(workers[i]) : i \in due} :
                  Cardinality({j \in 1..Len(ret) : ret[j] = v})
                      = Cardinality({i \in due : WorkerOf(workers[i]) = v})

\* a negative period that keeps one of two stored workers
C5_Witness ==
    /\ op = "select_by_period"
    /\ exc = NoExc
    /\ args[1] < 0
    /\ Len(workers) = 2
    /\ Len(ret) = 1

\* ---- C6
\* the message a formatter prints for the empty list
EmptyMessage(fn) ==
    IF fn = "display_workers" THEN MsgWorkersEmpty
    ELSE IF fn = "display_owners" THEN MsgOwnersEmpty
    ELSE MsgPetsEmpty

Formatters == {"display_workers", "display_owners", "display_pets"}

\* C6: every formatter (display_pets with either value of show_owner) prints
\* for the empty list the one line of its "empty" message, and no border,
\* header or row line.
C6_EmptyList ==
    (op \in Formatters /\ args[2] = <<>>) =>
        /\ Len(out) = 1
        /\ out[1] = EmptyMessage(op)
        /\ Head(out[1]) \notin {43, 124}

\* display_pets ran on the empty list with show_owner true
C6_Witness ==
    /\ op = "display_pets"
    /\ args[2] = <<>>
    /\ args[3]
    /\ out # <<>>

\* ---- C7
\* the header labels of a formatter
Labels(fn, show_owner) ==
    IF fn = "display_workers" THEN {LblNo, LblFio, LblPost, LblYear}
    ELSE IF fn = "display_owners" THEN {LblId, LblOwnerName, LblPhone}
    ELSE {LblId, LblPetName, LblSpecies, LblBreed, LblAge}
             \cup (IF show_owner THEN {LblOwnerId} ELSE {})

\* the values of all fields of record r, as Python formats them
AllFields(fn, r) ==
    IF fn = "display_workers" THEN {r.name, r.post, Str(r.year)}
    ELSE IF fn = "display_owners" THEN {Str(r.id), r.name, r.phone}
    ELSE {Str(r.id), r.name, r.species, r.breed, Str(r.age), Str(r.owner_id)}

\* the values of the fields of r that the formatter has a column for
ShownFields(fn, show_owner, r) ==
    IF fn = "display_pets" /\ ~show_owner
    THEN {Str(r.id), r.name, r.species, r.breed, Str(r.age)}
    ELSE AllFields(fn, r)

ShowOwner == IF op = "display_pets" THEN args[3] ELSE FALSE

\* the output is a table of one row per record, in the order of the list,
\* under a header line holding the labels
IsTable ==
    /\ Len(out) = Len(args[2]) + 4
    /\ \A l \in Labels(op, ShowOwner) : Contains(out[2], l)
    /\ \A k \in {1, 3, Len(out)} : Head(out[k]) = 43
    /\ \A i \in 1..Len(args[2]) : Head(out[3 + i]) = 124

\* C7 as claimed: for a non-empty list the output holds the header labels and
\* one row per record, in input order, the row holding the value of every
\* field of its record (for a pet: id, name, species, breed, age, owner_id).
C7_Original ==
    (op \in Formatters /\ args[2] # <<>>) =>
        /\ IsTable
        /\ \A i \in 1..Len(args[2]) :
              \A v \in AllFields(op, args[2][i]) : Contains(out[3 + i], v)

\* C7 amended: the same, except that display_pets with show_owner false has no
\* owner column: its rows hold id, name, species, breed and age, and its
\* header does not hold the owner label.
C7_Amended ==
    (op \in Formatters /\ args[2] # <<>>) =>
        /\ IsTable
        /\ \A i \in 1..Len(args[2]) :
              \A v \in ShownFields(op, ShowOwner, args[2][i]) : Contains(out[3 + i], v)
        /\ (op = "display_pets" /\ ~ShowOwner) => ~Contains(out[2], LblOwnerId)

\* display_pets ran with show_owner false on two pets, the first of an owner
\* whose id is not the pet's id
C7_Witness ==
    /\ op = "display_pets"
    /\ ~args[3]
    /\ Len(args[2]) = 2
    /\ args[2][1].owner_id # args[2][1].id
    /\ Len(out) = 6

\* ---- C8
OwnerCommands == {"add_pet", "select_pets_by_owner"}

\* 'Oshibka: Vladelets s ID <id> ne naiden!'
NotFoundLine(id) == TxtErrOwnerId \o Str(id) \o TxtNotFoundBang

\* main ran a command that takes an owner id, and the repository was built
RanOwnerCommand ==
    /\ op = "main"
    /\ args[1].cmd \in OwnerCommands
    /\ Len(calls) >= 2

\* the command looked the owner up first and, finding none, printed the
\* not-found line and called nothing else
LooksUpFirst ==
    /\ calls[2] = "get_owner_by_id"
    /\ (NoOwner(args[1].owner) /\ args[2] = 0) =>
          /\ out = <<NotFoundLine(args[1].owner)>>
          /\ calls = <<"PetRepository", "get_owner_by_id">>
          /\ exc = NoExc

\* C8 as claimed: in both pet variants add_pet and select_pets_by_owner first
\* call get_owner_by_id and, when no owner is found, print the not-found
\* message and return without calling add_pet or get_pets_by_owner.
C8_Original == RanOwnerCommand => LooksUpFirst

\* C8 amended: that holds of both commands of zad1 and of select_pets_by_owner
\* of zad2; the add_pet command of zad2 calls the repository's add_pet at
\* once, which finds no owner and raises ValueError, and main prints
\* 'Oshibka: ' with its message and returns.
C8_Amended ==
    RanOwnerCommand =>
        IF variant = "zad2" /\ args[1].cmd = "add_pet"
        THEN /\ calls = <<"PetRepository", "add_pet">>
             /\ (NoOwner(args[1].owner) /\ args[2] = 0) =>
                   /\ out = <<TxtErr \o TxtOwnerWithId \o Str(args[1].owner)
                                  \o TxtNotFound>>
                   /\ exc = NoExc
        ELSE LooksUpFirst

\* zad1's main ran add_pet for an owner id that names no owner, with an owner
\* stored
C8_Witness ==
    /\ variant = "zad1"
    /\ op = "main"
    /\ args[1].cmd = "add_pet"
    /\ args[2] = 0
    /\ NoOwner(args[1].owner)
    /\ Len(owners) >= 1
    /\ calls = <<"PetRepository", "get_owner_by_id">>

\* ---- C9
\* C9: whatever the command and the variant, a storage-engine error raised
\* while main runs, the building of the repository included, is caught inside
\* main, which prints a message and returns.
C9_MainCatchesStorageErrors ==
    op = "main" =>
        /\ ~IsSqliteError(exc)
        /\ args[2] \in 1..Len(calls) => out # <<>>

\* ---- C10
\* C10: a mutating repository operation is all-or-nothing: add_worker that
\* ends with an exception leaves no row behind, neither a worker nor a post.
C10_AddWorkerAllOrNothing ==
    [][ (op' = "add_worker" /\ exc' # NoExc)
            => (posts' = posts /\ workers' = workers) ]_vars

\* ---- C11
\* table t2 keeps table t: every row of t is in t2, at its place, unchanged
Keeps(t2, t) ==
    /\ Len(t) <= Len(t2)
    /\ \A i \in 1..Len(t) : t2[i] = t[i]

Queries ==
    {"get_all_workers", "select_by_period", "get_all_owners", "get_all_pets",
     "get_pets_by_owner", "get_owner_by_id"}

QueryCommands ==
    {"display", "select", "display_owners", "display_pets", "select_pets_by_owner"}

\* C11: stored rows are append-only: every step keeps every stored row of the
\* four tables, with its id and its field values, and a query operation (or a
\* command of main that only queries) leaves the tables as they were.
C11_AppendOnly ==
    [][ /\ Keeps(posts', posts)
        /\ Keeps(workers', workers)
        /\ Keeps(owners', owners)
        /\ Keeps(pets', pets)
        /\ (op' \in Queries) => UNCHANGED <<staffStore, petStore>>
        /\ (op' = "main" /\ args'[1].cmd \in QueryCommands)
              => UNCHANGED <<staffStore, petStore>> ]_vars

\* a query that ran over a store of an owner and two pets
C11_Witness ==
    /\ op = "get_pets_by_owner"
    /\ exc = NoExc
    /\ Len(owners) = 1
    /\ Len(pets) = 2
    /\ Len(ret) = 2

\* ---- C12
RawVariants == {"staff", "zad1"}

\* C12: in the raw-SQL variants every repository operation closes the
\* connection it opened before the call ends, whether it returns or raises:
\* no connection of an ended call is open, so never more than the one of the
\* call under way.
C12_ConnectionsClosed ==
    (variant \in RawVariants) => leaked = 0

\* ---- C13
\* caller c is through get_or_create_post with an id
Through(c) == callers[c].pc \in {"returned", "worker_inserted", "done"}

\* C13: get_or_create_post is not atomic.  Two callers with the same title
\* that both ran the SELECT before either committed its INSERT (both found no
\* row) both insert: once both are through, posts holds a row of that title
\* for each of them, and the two got different ids.
C13_RaceDuplicates ==
    \A c, d \in Callers :
        (/\ c # d
         /\ callers[c].title = callers[d].title
         /\ callers[c].missed /\ callers[d].missed
         /\ Through(c) /\ Through(d))
        => /\ callers[c].post_id # callers[d].post_id
           /\ \A e \in {c, d} :
                 \E i \in 1..Len(posts) :
                    posts[i] = [post_id |-> callers[e].post_id,
                                post_title |-> callers[e].title]

\* two callers of get_or_create_post with one title, both through, both
\* having inserted: two rows of that title
C13_Witness ==
    /\ callers # <<>>
    /\ callers[1].op = "get_or_create_post"
    /\ callers[2].op = "get_or_create_post"
    /\ callers[1].title = callers[2].title
    /\ callers[1].missed /\ callers[2].missed
    /\ callers[1].pc = "returned" /\ callers[2].pc = "returned"
    /\ callers[1].post_id # callers[2].post_id
    /\ Cardinality({i \in 1..Len(posts) : posts[i].post_title = callers[1].title}) = 2

\* ---- C14
PairCalls ==
    {"add_owner", "add_pet", "get_all_owners", "get_all_pets", "get_pets_by_owner",
     "get_owner_by_id"}

\* C14: zad1 and zad2 implement one contract: after every call of a sequence
\* made on both from empty stores, the call returned the same records in both
\* or was rejected in both, and the two stores hold the same rows.
C14_SameContract ==
    (op \in PairCalls) =>
        /\ \/ exc = NoExc /\ mirror.exc = NoExc /\ ret = mirror.ret
           \/ exc # NoExc /\ mirror.exc # NoExc
        /\ owners = mirror.owners
        /\ pets = mirror.pets

\* ---- C15
\* C15: with one caller at a time, after any sequence of add_worker and
\* get_or_create_post calls no two rows of posts carry the same title.
C15_UniqueTitles ==
    (variant = "staff") =>
        \A i, j \in 1..Len(posts) :
            posts[i].post_title = posts[j].post_title => i = j

\* a second add_worker with the title of the first: two workers, one post
C15_Witness ==
    /\ op = "add_worker"
    /\ exc = NoExc
    /\ Len(workers) = 2
    /\ workers[1].post_id = workers[2].post_id
    /\ Len(posts) = 1

\* ---- C16
\* how many times record v is in list l
Count(l, v) == Cardinality({i \in 1..Len(l) : l[i] = v})

\* C16: get_all_workers returns one record per add_worker call that returned,
\* with the name, the post and the year of that call, and nothing else.
C16_AllWorkers ==
    (op = "get_all_workers" /\ exc = NoExc) =>
        /\ Len(ret) = Len(added)
        /\ \A v \in Range(ret) \cup Range(added) : Count(ret, v) = Count(added, v)

\* after the one add_worker('A', 'E', 2016) on an empty store, the listing is
\* the one record ('A', 'E', 2016)
C16_Example ==
    /\ op = "get_all_workers"
    /\ exc = NoExc
    /\ added = <<[name |-> <<65>>, post |-> <<69>>, year |-> 2016]>>
    /\ ret = <<[name |-> <<65>>, post |-> <<69>>, year |-> 2016]>>

\* ---- C17
Constructors == {"StaffRepository", "PetRepository"}

\* C17: constructing a repository over a file that holds the two tables, and
\* that opens, succeeds and leaves the tables and every row as they were.
C17_SchemaIdempotent ==
    [][ (op' \in Constructors /\ schema /\ args'[1] = 0)
            => /\ exc' = NoExc
               /\ schema'
               /\ UNCHANGED <<staffStore, petStore>> ]_vars

\* a repository built over a store that holds an owner and a pet
C17_Witness ==
    /\ op = "PetRepository"
    /\ variant = "zad1"
    /\ exc = NoExc
    /\ Len(owners) = 1
    /\ Len(pets) = 1

====
